---- MODULE Spec2Model ----
(***************************************************************************)
(* Model of lib/osmosdr/osmosdr_src_c.cc: the ring of raw sample buffers   *)
(* filled by the asynchronous read callback (acquisition thread) and       *)
(* drained by work() (the caller's thread), the thread that owns the       *)
(* blocking osmosdr_read_async call, the destructor, and the IF gain       *)
(* distribution of set_if_gain.                                            *)
(*                                                                         *)
(* A raw buffer is not modelled byte by byte.  The k-th callback delivers  *)
(* block number k; a slot records which block was last copied into it and  *)
(* how many bytes of it (blk = 0: never written, still as malloc left it). *)
(* A conversion loop of work() yields a segment: the slot it read, what    *)
(* that slot held, the index of the first sample pair and the number of    *)
(* pairs converted.  Sample pair i of block b is the pair <<b, i>>.        *)
(***************************************************************************)
EXTENDS Integers, Sequences, FiniteSets, TLC

\* ---------------------------------------------------------------- constants
BUF_NUM == 15
BUF_SKIP == 1
BYTES_PER_SAMPLE == 4
BUF_LEN == 16 * 32 * 512

\* ------------------------------------------------------------------- bounds
\* callbacks the acquisition source delivers in one run
MaxCallbacks == 5
\* callbacks whose length is shorter than the buffer length
MaxShort == 1
\* calls of work()
MaxPulls == 2

\* "buffers=" and "buflen=" arguments tried (0: argument absent)
BufferArgs == {0, 1, 2, 3}
BuflenArgs == {0, 100, 512}

VARIABLES
  buf_num, buf_len,        \* _buf_num, _buf_len
  buf,                     \* _buf[i]: what slot i holds
  buf_head, buf_used,      \* _buf_head, _buf_used
  buf_offset, samp_avail,  \* _buf_offset (in shorts), _samp_avail (in pairs)
  running, skipped,        \* _running, _skipped
  dev, bufAlloc,           \* _dev open, _buf allocated
  mutex,                   \* owner of _buf_mutex: "free", "acq" or "work"
  acqPc, nCallbacks, nShort, cbBlk, cbLen, cbTail, lastPub, overflows,
  pc, noutput_items, rdSlot, rdRaced, out, ret,
  pre, interfered, slept, path, nPulls, lastPos,
  dtorPc, cancelReq,
  if_gain,                 \* _if_gain
  tuner_if_gain,           \* the stage gains last given to the device
  absInt,                  \* the build resolves abs() of line 491 to int abs(int)
  gainOp, gainArg, gainRet \* the last gain call, its argument and its result

ringVars == <<buf_num, buf_len, buf, buf_head, buf_used, running, skipped,
              dev, bufAlloc, mutex>>
acqVars == <<acqPc, nCallbacks, nShort, cbBlk, cbLen, cbTail, lastPub, overflows>>
workVars == <<buf_offset, samp_avail, pc, noutput_items, rdSlot, rdRaced, out,
              ret, pre, interfered, slept, path, nPulls, lastPos>>
dtorVars == <<dtorPc, cancelReq>>
gainVars == <<if_gain, tuner_if_gain, absInt, gainOp, gainArg, gainRet>>
vars == <<ringVars, acqVars, workVars, dtorVars, gainVars>>

\* --------------------------------------------------------------- constructor
\* lines 86-93: the number of buffers
BufNumOf(arg) == IF arg = 0 THEN BUF_NUM ELSE arg

\* lines 89-96: the buffer length, a multiple of 512
BufLenOf(arg) == IF arg = 0 \/ arg % 512 # 0 THEN BUF_LEN ELSE arg

\* the pairs of a buffer counted as shorts
SamplesPerBufShorts(len) == len \div 2

\* line 103 and line 261: sample pairs in one buffer
SamplesPerBuf(len) == len \div BYTES_PER_SAMPLE

Slots == 0 .. (buf_num - 1)

Unwritten == [blk |-> 0, len |-> 0]

StreamInit ==
  /\ \E a \in BufferArgs : buf_num = BufNumOf(a)
  /\ \E l \in BuflenArgs : buf_len = BufLenOf(l)
  /\ buf = [i \in 0 .. (buf_num - 1) |-> Unwritten]
  /\ buf_head = 0 /\ buf_used = 0 /\ buf_offset = 0
  /\ samp_avail = SamplesPerBuf(buf_len)
  /\ running = TRUE /\ skipped = 0
  /\ dev = TRUE /\ bufAlloc = TRUE
  /\ mutex = "free"
  /\ acqPc = "reading" /\ nCallbacks = 0 /\ nShort = 0
  /\ cbBlk = 0 /\ cbLen = 0 /\ cbTail = 0 /\ lastPub = 0 /\ overflows = 0
  /\ pc = "idle" /\ noutput_items = 0 /\ rdSlot = 0 /\ rdRaced = FALSE
  /\ out = <<>> /\ ret = "none"
  /\ pre = [head |-> 0, used |-> 0, offset |-> 0, avail |-> 0, running |-> TRUE]
  /\ interfered = FALSE /\ slept = FALSE /\ path = "none" /\ nPulls = 0
  /\ lastPos = <<0, 0>>
  /\ dtorPc = "alive" /\ cancelReq = FALSE

\* ----------------------------------------------------------- ring operations
\* the tail taken to be the head
BufTailAtHead(h, u, n) == h % n

\* line 184: the slot the callback copies into
BufTail(h, u, n) == (h + u) % n

\* Publish without the full-ring test
PublishNoDrop(h, u, n) == [head |-> h, used |-> u + 1, overflow |-> FALSE]

\* Publish that leaves the head where it is when the ring is full
PublishKeepHead(h, u, n) ==
  IF u = n THEN [head |-> h, used |-> u, overflow |-> TRUE]
           ELSE [head |-> h, used |-> u + 1, overflow |-> FALSE]

\* lines 187-192: a buffer was filled; a full ring drops its oldest buffer
Publish(h, u, n) ==
  IF u = n THEN [head |-> (h + 1) % n, used |-> u, overflow |-> TRUE]
           ELSE [head |-> h, used |-> u + 1, overflow |-> FALSE]

\* ReleaseOldest without the advance of the head
ReleaseNoAdvance(h, u, n) == [head |-> h, used |-> u - 1]

\* lines 248-249: work() is done with the buffer at the head
ReleaseOldest(h, u, n) == [head |-> (h + 1) % n, used |-> u - 1]

\* the condition of line 224 without the test of _running
WaitCondNoRunning(u, r) == u < 3

\* the condition of line 224 with a threshold of one buffer
WaitCondOne(u, r) == u < 1 /\ r

\* line 224: the condition under which work() waits
WaitCond(u, r) == u < 3 /\ r

\* line 254: what the next buffer has to supply
Remaining(n, avail) == n - avail

\* the test of line 233 with < for <=
FastPathStrict(n, avail) == n < avail

\* line 233: the request fits in what is left of the current buffer
FastPath(n, avail) == n <= avail

\* notify_one (lines 195, 212): wakes work() if it sleeps on _buf_cond
Notify(p) == IF p = "sleep" THEN "woken" ELSE p

\* a transfer that came back shorter than the buffer
ShortLen(len) == len \div 2

\* ------------------------------------------------------- acquisition thread
ConvPcs == {"fast", "cross1", "cross2"}

\* lines 174-179: the callback is entered; the first BUF_SKIP are skipped
Callback(len) ==
  /\ acqPc = "reading" /\ nCallbacks < MaxCallbacks
  /\ \/ len = buf_len /\ nShort' = nShort
     \/ len = ShortLen(buf_len) /\ nShort < MaxShort /\ nShort' = nShort + 1
  /\ nCallbacks' = nCallbacks + 1
  /\ IF skipped < BUF_SKIP
       THEN /\ skipped' = skipped + 1
            /\ UNCHANGED <<acqPc, cbBlk, cbLen>>
       ELSE /\ acqPc' = "cb_lock"
            /\ cbBlk' = nCallbacks + 1
            /\ cbLen' = len
            /\ UNCHANGED skipped
  /\ UNCHANGED <<buf_num, buf_len, buf, buf_head, buf_used, running, dev,
                 bufAlloc, mutex, cbTail, lastPub, overflows, workVars, dtorVars, gainVars>>

\* lines 182-185: the lock is taken, the tail computed, memcpy begins
CbLock ==
  /\ acqPc = "cb_lock" /\ mutex = "free"
  /\ mutex' = "acq"
  /\ cbTail' = BufTail(buf_head, buf_used, buf_num)
  /\ acqPc' = "cb_copy"
  /\ rdRaced' = (rdRaced \/ (pc \in ConvPcs /\ rdSlot = cbTail'))
  /\ interfered' = TRUE
  /\ UNCHANGED <<buf_num, buf_len, buf, buf_head, buf_used, running, skipped,
                 dev, bufAlloc, nCallbacks, nShort, cbBlk, cbLen, lastPub,
                 overflows, buf_offset, samp_avail, pc, noutput_items, rdSlot,
                 out, ret, pre, slept, path, nPulls, lastPos, dtorVars, gainVars>>

\* lines 185-193: memcpy ends, head/used are updated, the lock is released
CbPublish ==
  /\ acqPc = "cb_copy"
  /\ LET p == Publish(buf_head, buf_used, buf_num) IN
       /\ buf' = [buf EXCEPT ![cbTail] = [blk |-> cbBlk, len |-> cbLen]]
       /\ buf_head' = p.head
       /\ buf_used' = p.used
       /\ overflows' = IF p.overflow THEN overflows + 1 ELSE overflows
  /\ lastPub' = cbBlk
  /\ mutex' = "free"
  /\ acqPc' = "cb_notify"
  /\ interfered' = TRUE
  /\ UNCHANGED <<buf_num, buf_len, running, skipped, dev, bufAlloc,
                 nCallbacks, nShort, cbBlk, cbLen, cbTail,
                 buf_offset, samp_avail, pc, noutput_items, rdSlot, rdRaced,
                 out, ret, pre, slept, path, nPulls, lastPos, dtorVars, gainVars>>

\* line 195: notify_one, then the callback returns into osmosdr_read_async
CbNotify ==
  /\ acqPc = "cb_notify"
  /\ pc' = Notify(pc)
  /\ acqPc' = "reading"
  /\ UNCHANGED <<ringVars, nCallbacks, nShort, cbBlk, cbLen, cbTail, lastPub,
                 overflows, buf_offset, samp_avail, noutput_items, rdSlot,
                 rdRaced, out, ret, pre, interfered, slept, path, nPulls,
                 lastPos, dtorVars, gainVars>>

\* lines 205-207: osmosdr_read_async returns (error or cancellation)
ReadReturn ==
  /\ acqPc = "reading"
  /\ running' = FALSE
  /\ acqPc' = "acq_notify"
  /\ interfered' = TRUE
  /\ UNCHANGED <<buf_num, buf_len, buf, buf_head, buf_used, skipped, dev,
                 bufAlloc, mutex, nCallbacks, nShort, cbBlk, cbLen, cbTail,
                 lastPub, overflows, buf_offset, samp_avail, pc, noutput_items,
                 rdSlot, rdRaced, out, ret, pre, slept, path, nPulls, lastPos,
                 dtorVars, gainVars>>

\* line 212: notify_one, then the thread ends
AcqNotify ==
  /\ acqPc = "acq_notify"
  /\ pc' = Notify(pc)
  /\ acqPc' = "done"
  /\ UNCHANGED <<ringVars, nCallbacks, nShort, cbBlk, cbLen, cbTail, lastPub,
                 overflows, buf_offset, samp_avail, noutput_items, rdSlot,
                 rdRaced, out, ret, pre, interfered, slept, path, nPulls,
                 lastPos, dtorVars, gainVars>>

\* ------------------------------------------------------------------- work()
\* numbers of items the caller asks for, by buffer length
PullSizes(len) == IF len = BUF_LEN THEN {30000, 65536, 70000} ELSE {60, 128, 140}

\* a slot read while memcpy was writing it: neither the old nor the new block
Mixed == [blk |-> -1, len |-> 0]

\* what a conversion loop can have read from slot s
SlotData(s, raced) == IF raced THEN {buf[s], Mixed} ELSE {buf[s]}

\* lines 234-236, 241-243, 256-258: cnt pairs converted from slot s, from pair
\* number first on
Seg(d, s, first, cnt) ==
  [slot |-> s, blk |-> d.blk, len |-> d.len, first |-> first, cnt |-> cnt]

AppendSeg(o, sg) == IF sg.cnt > 0 THEN Append(o, sg) ELSE o

\* the position in the ingested stream of the last pair of a segment
SegEnd(sg) == <<sg.blk, sg.first + sg.cnt - 1>>

\* the segment holds pairs of a block the source delivered
Real(sg) == sg.blk >= 1

\* the position of the last pair delivered from a block: by the segments o,
\* or else the one before them
RECURSIVE LastEnd(_, _)
LastEnd(o, before) ==
  IF o = <<>> THEN before
  ELSE IF Real(o[Len(o)]) THEN SegEnd(o[Len(o)])
  ELSE LastEnd(SubSeq(o, 1, Len(o) - 1), before)

\* work() is called with noutput_items = n
PullCall(n) ==
  /\ pc = "idle" /\ dtorPc = "alive" /\ nPulls < MaxPulls
  /\ n \in PullSizes(buf_len)
  /\ noutput_items' = n
  /\ pc' = "lock"
  /\ out' = <<>> /\ ret' = "none" /\ path' = "none"
  /\ lastPos' = LastEnd(out, lastPos)
  /\ pre' = [head |-> buf_head, used |-> buf_used, offset |-> buf_offset,
             avail |-> samp_avail, running |-> running]
  /\ interfered' = (acqPc = "cb_copy") /\ slept' = FALSE
  /\ nPulls' = nPulls + 1
  /\ UNCHANGED <<ringVars, acqVars, buf_offset, samp_avail, rdSlot, rdRaced,
                 dtorVars, gainVars>>

\* line 222 (and the return from wait at line 225): the lock is taken
WorkLock ==
  /\ pc \in {"lock", "woken"} /\ mutex = "free"
  /\ mutex' = "work"
  /\ pc' = "test"
  /\ UNCHANGED <<buf_num, buf_len, buf, buf_head, buf_used, running, skipped,
                 dev, bufAlloc, acqVars, buf_offset, samp_avail, noutput_items,
                 rdSlot, rdRaced, out, ret, pre, interfered, slept, path,
                 nPulls, lastPos, dtorVars, gainVars>>

\* line 224: the loop condition; line 226: the lock is released
WorkTest ==
  /\ pc = "test"
  /\ IF WaitCond(buf_used, running)
       THEN pc' = "wait" /\ UNCHANGED mutex
       ELSE pc' = "check" /\ mutex' = "free"
  /\ UNCHANGED <<buf_num, buf_len, buf, buf_head, buf_used, running, skipped,
                 dev, bufAlloc, acqVars, buf_offset, samp_avail, noutput_items,
                 rdSlot, rdRaced, out, ret, pre, interfered, slept, path,
                 nPulls, lastPos, dtorVars, gainVars>>

\* line 225: wait() releases the lock and sleeps, atomically
WorkWait ==
  /\ pc = "wait"
  /\ mutex' = "free"
  /\ pc' = "sleep"
  /\ slept' = TRUE
  /\ UNCHANGED <<buf_num, buf_len, buf, buf_head, buf_used, running, skipped,
                 dev, bufAlloc, acqVars, buf_offset, samp_avail, noutput_items,
                 rdSlot, rdRaced, out, ret, pre, interfered, path, nPulls,
                 lastPos, dtorVars, gainVars>>

\* line 225: a condition variable may wake without a notification
SpuriousWake ==
  /\ pc = "sleep"
  /\ pc' = "woken"
  /\ UNCHANGED <<ringVars, acqVars, buf_offset, samp_avail, noutput_items,
                 rdSlot, rdRaced, out, ret, pre, interfered, slept, path,
                 nPulls, lastPos, dtorVars, gainVars>>

\* work() without the test of line 228
WorkCheckNoEos ==
  /\ pc = "check"
  /\ rdSlot' = buf_head
  /\ rdRaced' = (acqPc = "cb_copy" /\ cbTail = buf_head)
  /\ pc' = IF FastPath(noutput_items, samp_avail) THEN "fast" ELSE "cross1"
  /\ UNCHANGED <<ringVars, acqVars, buf_offset, samp_avail, noutput_items,
                 out, ret, path, pre, interfered, slept, nPulls, lastPos,
                 dtorVars, gainVars>>

\* lines 228-233: WORK_DONE if not running; else the buffer at the head is
\* taken (without the lock) and the branch chosen
WorkCheck ==
  /\ pc = "check"
  /\ IF ~running
       THEN /\ pc' = "idle" /\ ret' = "done" /\ path' = "eos"
            /\ UNCHANGED <<rdSlot, rdRaced>>
       ELSE /\ rdSlot' = buf_head
            /\ rdRaced' = (acqPc = "cb_copy" /\ cbTail = buf_head)
            /\ pc' = IF FastPath(noutput_items, samp_avail) THEN "fast" ELSE "cross1"
            /\ UNCHANGED <<ret, path>>
  /\ UNCHANGED <<ringVars, acqVars, buf_offset, samp_avail, noutput_items,
                 out, pre, interfered, slept, nPulls, lastPos, dtorVars, gainVars>>

\* lines 234-239 and 264
WorkFast ==
  /\ pc = "fast"
  /\ \E d \in SlotData(rdSlot, rdRaced) :
       out' = AppendSeg(out, Seg(d, rdSlot, buf_offset \div 2, noutput_items))
  /\ buf_offset' = buf_offset + noutput_items * 2
  /\ samp_avail' = samp_avail - noutput_items
  /\ pc' = "idle" /\ ret' = "items" /\ path' = "fast"
  /\ UNCHANGED <<ringVars, acqVars, noutput_items, rdSlot, rdRaced, pre,
                 interfered, slept, nPulls, lastPos, dtorVars, gainVars>>

\* lines 241-243: what is left of the current buffer
WorkCross1 ==
  /\ pc = "cross1"
  /\ \E d \in SlotData(rdSlot, rdRaced) :
       out' = AppendSeg(out, Seg(d, rdSlot, buf_offset \div 2, samp_avail))
  /\ pc' = "release"
  /\ UNCHANGED <<ringVars, acqVars, buf_offset, samp_avail, noutput_items,
                 rdSlot, rdRaced, ret, pre, interfered, slept, path, nPulls,
                 lastPos, dtorVars, gainVars>>

\* lines 245-250: the head moves on, under the lock
WorkRelease ==
  /\ pc = "release" /\ mutex = "free"
  /\ LET r == ReleaseOldest(buf_head, buf_used, buf_num) IN
       /\ buf_head' = r.head
       /\ buf_used' = r.used
  /\ pc' = "l252"
  /\ UNCHANGED <<buf_num, buf_len, buf, running, skipped, dev, bufAlloc, mutex,
                 acqVars, buf_offset, samp_avail, noutput_items, rdSlot,
                 rdRaced, out, ret, pre, interfered, slept, path, nPulls,
                 lastPos, dtorVars, gainVars>>

\* line 252: the buffer now at the head is taken (without the lock)
WorkNext ==
  /\ pc = "l252"
  /\ rdSlot' = buf_head
  /\ rdRaced' = (acqPc = "cb_copy" /\ cbTail = buf_head)
  /\ pc' = "cross2"
  /\ UNCHANGED <<ringVars, acqVars, buf_offset, samp_avail, noutput_items,
                 out, ret, pre, interfered, slept, path, nPulls, lastPos,
                 dtorVars, gainVars>>

\* lines 254-264: the rest comes from the start of the new buffer
WorkCross2 ==
  /\ pc = "cross2"
  /\ LET remaining == Remaining(noutput_items, samp_avail) IN
       /\ \E d \in SlotData(rdSlot, rdRaced) :
            out' = AppendSeg(out, Seg(d, rdSlot, 0, remaining))
       /\ buf_offset' = remaining * 2
       /\ samp_avail' = SamplesPerBuf(buf_len) - remaining
  /\ pc' = "idle" /\ ret' = "items" /\ path' = "cross"
  /\ UNCHANGED <<ringVars, acqVars, noutput_items, rdSlot, rdRaced, pre,
                 interfered, slept, nPulls, lastPos, dtorVars, gainVars>>

\* --------------------------------------------------------------- destructor
\* lines 150-152: _running is cleared and the asynchronous read cancelled
DtorBegin ==
  /\ dtorPc = "alive" /\ pc = "idle" /\ dev
  /\ running' = FALSE
  /\ cancelReq' = TRUE
  /\ dtorPc' = "join"
  /\ interfered' = TRUE
  /\ UNCHANGED <<buf_num, buf_len, buf, buf_head, buf_used, skipped, dev,
                 bufAlloc, mutex, acqVars, buf_offset, samp_avail, pc,
                 noutput_items, rdSlot, rdRaced, out, ret, pre, slept, path,
                 nPulls, lastPos, gainVars>>

\* a join that returns while the acquisition thread is still running
DtorJoinNoWait ==
  /\ dtorPc = "join"
  /\ dtorPc' = "close"
  /\ UNCHANGED <<ringVars, acqVars, workVars, cancelReq, gainVars>>

\* line 153: join returns once the acquisition thread has ended
DtorJoin ==
  /\ dtorPc = "join" /\ acqPc = "done"
  /\ dtorPc' = "close"
  /\ UNCHANGED <<ringVars, acqVars, workVars, cancelReq, gainVars>>

\* lines 154-155: the device is closed
DtorClose ==
  /\ dtorPc = "close"
  /\ dev' = FALSE
  /\ dtorPc' = "free"
  /\ UNCHANGED <<buf_num, buf_len, buf, buf_head, buf_used, running, skipped,
                 bufAlloc, mutex, acqVars, workVars, cancelReq, gainVars>>

\* lines 158-165: the buffers are freed
DtorFree ==
  /\ dtorPc = "free" /\ bufAlloc
  /\ bufAlloc' = FALSE
  /\ dtorPc' = "dead"
  /\ UNCHANGED <<buf_num, buf_len, buf, buf_head, buf_used, running, skipped,
                 dev, mutex, acqVars, workVars, cancelReq, gainVars>>

\* ------------------------------------------------------------ set_if_gain
\* Gains are counted in units of 1/GainScale dB, so that targets between two
\* whole dB values are covered.
GainScale == 2
\* targets tried: from TargetBelow dB under zero to TargetAbove dB
TargetBelow == 10
TargetAbove == 70

GainTargets == (0 - TargetBelow * GainScale) .. (TargetAbove * GainScale)

\* lines 462-467: the IF gain stages (start, stop, step), in dB
IfGains ==
  << [start |-> -3, stop |-> 6, step |-> 9],
     [start |-> 0, stop |-> 9, step |-> 3],
     [start |-> 0, stop |-> 9, step |-> 3],
     [start |-> 0, stop |-> 2, step |-> 1],
     [start |-> 3, stop |-> 15, step |-> 3],
     [start |-> 3, stop |-> 15, step |-> 3] >>

NumStages == Len(IfGains)

RECURSIVE SumSeq(_)
SumSeq(q) == IF q = <<>> THEN 0 ELSE q[1] + SumSeq(Tail(q))

\* lines 472-474: every stage starts at its minimum
MinGains == [i \in 1 .. NumStages |-> IfGains[i].start * GainScale]

\* lines 483-489: the sum with stage i at g and the others as they are
SumWith(gains, i, g) == SumSeq([j \in 1 .. NumStages |-> IF j = i THEN g ELSE gains[j]])

\* the error taken with its sign
SignedErr(d, asInt) == d

\* line 491: abs(gain - sum); where abs is int abs(int) the argument is
\* truncated to a whole number of dB first
AbsErr(d, asInt) ==
  LET a == IF d < 0 THEN 0 - d ELSE d
  IN  IF asInt THEN (a \div GainScale) * GainScale ELSE a

\* the loop condition of line 481 with < for <=
InRangeExclusive(g, stop) == g < stop

\* line 481: the loop condition g <= range.stop()
InRange(g, stop) == g <= stop

\* lines 479-496: the candidates of stage i from g on, with the least error
\* found so far
RECURSIVE ScanStage(_, _, _, _, _, _)
ScanStage(gain, gains, i, g, error, asInt) ==
  IF ~InRange(g, IfGains[i].stop * GainScale) THEN gains
  ELSE LET err == AbsErr(gain - SumWith(gains, i, g), asInt)
           nxt == g + IfGains[i].step * GainScale
       IN  IF err < error
             THEN ScanStage(gain, [gains EXCEPT ![i] = g], i, nxt, err, asInt)
             ELSE ScanStage(gain, gains, i, nxt, error, asInt)

\* lines 476-497: the stages from the last to the first; the error each
\* stage has to beat starts at the target gain itself (line 479)
RECURSIVE BackwardPass(_, _, _, _)
BackwardPass(gain, gains, i, asInt) ==
  IF i = 0 THEN gains
  ELSE BackwardPass(gain,
                    ScanStage(gain, gains, i, IfGains[i].start * GainScale, gain, asInt),
                    i - 1, asInt)

\* lines 460-497
Allocate(gain, asInt) == BackwardPass(gain, MinGains, NumStages, asInt)

\* line 508: int(gains[stage] * 10.0), in tenths of a dB
DeviceGains(gains) == [i \in 1 .. NumStages |-> (gains[i] * 10) \div GainScale]

\* lines 512-513: what set_if_gain stores and returns
IfGainResult(gain, gains) == gain

\* line 133: the constructor presets an IF gain of 24 dB
GainInit ==
  /\ absInt \in BOOLEAN
  /\ if_gain = IfGainResult(24 * GainScale, Allocate(24 * GainScale, absInt))
  /\ tuner_if_gain = DeviceGains(Allocate(24 * GainScale, absInt))
  /\ gainOp = "ctor" /\ gainArg = 24 * GainScale /\ gainRet = 0

\* lines 458-514: set_if_gain(gain)
SetIfGain(gain) ==
  /\ dtorPc = "alive"
  /\ LET gains == Allocate(gain, absInt) IN
       /\ tuner_if_gain' = IF dev THEN DeviceGains(gains) ELSE tuner_if_gain
       /\ if_gain' = IfGainResult(gain, gains)
       /\ gainRet' = IfGainResult(gain, gains)
  /\ gainOp' = "set" /\ gainArg' = gain
  /\ UNCHANGED <<ringVars, acqVars, workVars, dtorVars, absInt>>

\* lines 449-453: get_gain("IF")
GetIfGain ==
  /\ dtorPc = "alive"
  /\ gainRet' = if_gain
  /\ gainOp' = "get"
  /\ UNCHANGED <<ringVars, acqVars, workVars, dtorVars, if_gain,
                 tuner_if_gain, absInt, gainArg>>

\* ------------------------------------------------------------ specification
\* In Spec only the build with abs(double) is started: the gain state does
\* not change there.
Init == StreamInit /\ GainInit /\ ~absInt

AcqStep == CbLock \/ CbPublish \/ CbNotify \/ AcqNotify

WorkStep ==
  \/ WorkLock \/ WorkTest \/ WorkWait \/ WorkCheck \/ WorkFast
  \/ WorkCross1 \/ WorkRelease \/ WorkNext \/ WorkCross2

DtorStep == DtorJoin \/ DtorClose \/ DtorFree

Next ==
  \/ \E len \in {buf_len, ShortLen(buf_len)} : Callback(len)
  \/ AcqStep
  \/ ReadReturn
  \/ \E n \in PullSizes(buf_len) : PullCall(n)
  \/ WorkStep
  \/ SpuriousWake
  \/ DtorBegin
  \/ DtorStep

Spec == Init /\ [][Next]_vars

\* Scheduling: a thread that can take a step of its own code does so in the
\* end, a thread that finds the mutex free again and again gets it in the
\* end, and a cancelled osmosdr_read_async returns.  Nothing obliges the
\* source to deliver a callback or to fail, the caller to call work(), the
\* owner to destroy the block, or a condition variable to wake unnotified.
Fairness ==
  /\ WF_vars(AcqStep)
  /\ SF_vars(CbLock)
  /\ WF_vars(WorkStep)
  /\ SF_vars(WorkLock)
  /\ WF_vars(cancelReq /\ ReadReturn)
  /\ WF_vars(DtorStep)

\* The gain calls alone, on a block with its default buffers, for both
\* resolutions of abs().
GainNext == (\E g \in GainTargets : SetIfGain(g)) \/ GetIfGain

GainSpecInit == StreamInit /\ GainInit /\ buf_num = BUF_NUM /\ buf_len = BUF_LEN

GainSpec == GainSpecInit /\ [][GainNext]_vars

\* the default buffer length: progress does not depend on it
LiveInit == Init /\ buf_len = BUF_LEN

LiveSpec == LiveInit /\ [][Next]_vars /\ Fairness

\* The hypothesis of a source that keeps delivering: a callback that can be
\* delivered is delivered in the end.
CallbackFairness == WF_vars(\E len \in {buf_len, ShortLen(buf_len)} : Callback(len))

StreamSpec == LiveInit /\ [][Next]_vars /\ Fairness /\ CallbackFairness

\* Callers that never ask for more than one buffer holds.
ContractSizes(len) == {n \in PullSizes(len) : n <= SamplesPerBuf(len)}

ContractNext ==
  \/ \E len \in {buf_len, ShortLen(buf_len)} : Callback(len)
  \/ AcqStep
  \/ ReadReturn
  \/ \E n \in ContractSizes(buf_len) : PullCall(n)
  \/ WorkStep
  \/ SpuriousWake
  \/ DtorBegin
  \/ DtorStep

ContractSpec == Init /\ [][ContractNext]_vars

\* ==================================================================== claims
\* the slot k places after the head
SlotAt(k) == (buf_head + k) % buf_num

\* C1: overflow drop invariant.  In every reachable state 0 <= used <= number
\* of buffers and 0 <= head < number of buffers, and the slots head, head+1,
\* ..., head+used-1 hold the used most recently published blocks in the order
\* they were ingested, the oldest of them at the head.
C1_OverflowDropInvariant ==
  /\ buf_used \in 0 .. buf_num
  /\ buf_head \in 0 .. (buf_num - 1)
  /\ \A k \in 0 .. (buf_used - 1) :
       buf[SlotAt(k)].blk = lastPub - buf_used + 1 + k

\* more publishes than buffers with no call of work() in between
C1_Witness ==
  /\ nPulls = 0 /\ overflows > 0 /\ buf_used = buf_num /\ buf_num >= 3
  /\ acqPc = "cb_notify"

\* a call of work() has returned and no callback held the lock, and _running
\* was not cleared, between the call and now
Isolated == pc = "idle" /\ nPulls > 0 /\ ~interfered

\* C2: boundary-crossing pull.  A call of work() that starts running with
\* used >= 3 and r >= 0 pairs left in the buffer at the head, asks for n pairs
\* with r < n <= r + pairs per buffer, and is not overlapped by a callback,
\* returns n pairs: the last r pairs of the buffer at the head, then the first
\* n-r pairs of the next buffer; the head has moved on by one, used is one
\* less, and the cursor stands n-r pairs into the new head buffer.
C2_BoundaryCrossingPull ==
  LET r == pre.avail
      n == noutput_items
      spb == SamplesPerBuf(buf_len)
      s0 == pre.head
      s1 == (pre.head + 1) % buf_num
  IN  (/\ Isolated /\ pre.running /\ pre.used >= 3
       /\ r >= 0 /\ r < n /\ n <= r + spb)
      => /\ ret = "items"
         /\ out = (IF r > 0 THEN <<Seg(buf[s0], s0, spb - r, r)>> ELSE <<>>)
                  \o <<Seg(buf[s1], s1, 0, n - r)>>
         /\ buf[s1].blk = buf[s0].blk + 1
         /\ buf_head = s1
         /\ buf_used = pre.used - 1
         /\ buf_offset = 2 * (n - r)
         /\ samp_avail = spb - (n - r)

\* the example: 65536 pairs per buffer, a fresh cursor, work() asked for 70000
C2_Witness ==
  /\ Isolated /\ pre.running /\ pre.used >= 3
  /\ SamplesPerBuf(buf_len) = 65536 /\ pre.offset = 0 /\ pre.avail = 65536
  /\ noutput_items = 70000
  /\ Len(out) = 2 /\ out[1].cnt = 65536 /\ out[2].cnt = 4464
  /\ out[1].slot = 0 /\ out[2].slot = 1
  /\ buf_offset = 2 * 4464

\* C3: fast path frame condition.  When work() gets past the wait with the
\* request n no larger than what is left of the current buffer, it takes the
\* branch of line 233 and never the locked head advance: every step work()
\* then takes leaves head and used as they are, and it returns n pairs read
\* from the buffer taken at line 231 (the one at the head, if no callback
\* overlapped), starting at the cursor, and moves the cursor on by n.
C3_FastPathFrame ==
  [][ /\ (pc = "check" /\ running /\ noutput_items <= samp_avail /\ pc' # pc)
         => /\ pc' = "fast"
            /\ rdSlot' = buf_head
            /\ UNCHANGED <<buf_head, buf_used, buf_offset, samp_avail>>
      /\ (pc = "check" /\ running /\ noutput_items > samp_avail) => pc' # "fast"
      /\ (pc = "fast" /\ pc' # pc)
         => /\ pc' = "idle" /\ ret' = "items"
            /\ UNCHANGED <<buf_head, buf_used>>
            /\ Len(out') = 1
            /\ out'[1].slot = rdSlot
            /\ out'[1].first = buf_offset \div 2
            /\ out'[1].cnt = noutput_items
            /\ buf_offset' = buf_offset + 2 * noutput_items
            /\ samp_avail' = samp_avail - noutput_items
            /\ ~interfered => /\ rdSlot = buf_head
                              /\ out'[1].blk = buf[buf_head].blk
    ]_vars

\* a fast-path call that used up exactly what was left of the buffer
C3_Witness ==
  /\ Isolated /\ path = "fast" /\ ret = "items"
  /\ noutput_items = pre.avail /\ samp_avail = 0
  /\ buf_head = pre.head /\ buf_used = pre.used

\* work() is in its wait: it has found the condition of line 224 true and is
\* about to call wait(), sleeps in it, or has been woken and wants the lock
Waiting == pc \in {"wait", "sleep", "woken"}

\* osmosdr_read_async has returned: _running is false
ReadReturned == acqPc \in {"acq_notify", "done"}

\* C4: shutdown wake-up.  Once osmosdr_read_async has returned, a call of
\* work() that is in its wait (also one that has tested the condition and
\* not yet gone to sleep) eventually returns WORK_DONE.
C4_ShutdownWakeUp ==
  [](( ReadReturned /\ Waiting) => <>(pc = "idle" /\ ret = "done"))

\* C5: a call of work() made when _running is already false and used = 0
\* never waits on the condition variable (nor for the lock: the acquisition
\* thread has ended its callbacks), performs no conversion, returns
\* WORK_DONE, and leaves head, used and the cursor as they were.
C5_PullAfterStop ==
  (nPulls > 0 /\ ~pre.running /\ pre.used = 0)
  => /\ ~slept
     /\ pc \in {"lock", "test", "check", "idle"}
     /\ mutex # "acq"
     /\ out = <<>>
     /\ pc = "idle" => ret = "done"
     /\ buf_head = pre.head /\ buf_used = pre.used
     /\ buf_offset = pre.offset /\ samp_avail = pre.avail

\* such a call has returned
C5_Witness ==
  /\ pc = "idle" /\ nPulls > 0 /\ ~pre.running /\ pre.used = 0
  /\ ret = "done" /\ path = "eos"

\* the callback is past the skip test and has not yet returned
InCallback == acqPc \in {"cb_lock", "cb_copy", "cb_notify"}

\* C6: the producer is never back-pressured.  Every callback that is past
\* the skip test returns, whatever work() does (never called, asleep in its
\* wait, or in the middle of a call); and a callback that finds the ring
\* full completes by dropping the oldest buffer: the head moves on by one
\* and used stays at the number of buffers.
C6_ProducerNeverBlocked ==
  /\ InCallback ~> (acqPc = "reading")
  /\ [][ (acqPc = "cb_copy" /\ acqPc' # acqPc)
         => /\ acqPc' = "cb_notify"
            /\ mutex' = "free"
            /\ buf_used = buf_num
               => /\ buf_head' = (buf_head + 1) % buf_num
                  /\ buf_used' = buf_num
                  /\ overflows' = overflows + 1
            /\ buf_used < buf_num
               => /\ buf_head' = buf_head
                  /\ buf_used' = buf_used + 1 ]_vars

\* a callback has dropped the oldest buffer of a full ring while work() was
\* asleep in its wait
C6_Witness ==
  /\ overflows > 0 /\ buf_used = buf_num /\ acqPc = "cb_notify"
  /\ pc = "sleep"

\* the aggregate gain the stages were last set to, in units of 1/GainScale dB
\* times ten
AppliedTimesTen == SumSeq(tuner_if_gain) * GainScale

\* C7: set_if_gain returns the aggregate gain actually applied, the sum of the
\* stage gains given to the device, and get_gain("IF") afterwards returns
\* that same sum, for every target.
C7_AppliedGainReturned ==
  gainOp \in {"set", "get"} => gainRet * 10 = AppliedTimesTen

\* C8: gain allocator boundary.  With the six stages (-3,6,9), (0,9,3),
\* (0,9,3), (0,2,1), (3,15,3), (3,15,3), a target below 3 dB, the sum of the
\* minimums, leaves every stage at its minimum, and a target above 56 dB,
\* the sum of the maximums, puts every stage at its maximum.
C8_AllocatorBoundary ==
  gainOp = "set"
  => /\ gainArg < 3 * GainScale
        => tuner_if_gain = <<-30, 0, 0, 0, 30, 30>>
     /\ gainArg > 56 * GainScale
        => tuner_if_gain = <<60, 90, 90, 20, 150, 150>>

\* a target above the sum of the maximums was set
C8_Witness ==
  /\ gainOp = "set" /\ gainArg > 56 * GainScale
  /\ tuner_if_gain = <<60, 90, 90, 20, 150, 150>>

\* position p comes before position q in the ingested stream
PosBefore(p, q) == p[1] < q[1] \/ (p[1] = q[1] /\ p[2] < q[2])

\* every conversion so far stayed inside its buffer and every callback
\* delivered a whole buffer
WithinContract ==
  /\ nShort = 0
  /\ lastPos[2] < SamplesPerBuf(buf_len)
  /\ \A i \in 1 .. Len(out) : out[i].first + out[i].cnt <= SamplesPerBuf(buf_len)

\* C9: order preservation under concurrency.  The pairs work() has returned,
\* over all its calls, are pairs of ingested blocks and come in the order of
\* ingestion: each segment starts after the last pair delivered before it.
\* (A segment read while memcpy was writing the buffer is not judged.)
C9_OrderPreserved ==
  WithinContract
  => \A i \in 1 .. Len(out) :
       /\ out[i].blk # 0
       /\ Real(out[i])
          => PosBefore(LastEnd(SubSeq(out, 1, i - 1), lastPos),
                       <<out[i].blk, out[i].first>>)

\* C10: no write/read overlap on a slot.  The callback is never inside its
\* memcpy into a slot while work() is converting pairs out of that same slot.
C10_NoWriteReadOverlap ==
  ~(acqPc = "cb_copy" /\ pc \in ConvPcs /\ cbTail = rdSlot)

\* C11: drops are whole buffers and the cursor belongs to the buffer at the
\* head.  For every block work() delivers pairs of, the first pair delivered
\* of it is its pair 0 and the pairs delivered of it are a contiguous prefix:
\* each segment starts at pair 0 or right after the pair delivered last, of
\* the same block -- also when the callback dropped the buffer at the head
\* between two calls of work() while the cursor stood inside it.
C11_CursorBelongsToHead ==
  WithinContract
  => \A i \in 1 .. Len(out) :
       Real(out[i])
       => \/ out[i].first = 0
          \/ LastEnd(SubSeq(out, 1, i - 1), lastPos)
               = <<out[i].blk, out[i].first - 1>>

\* C12: lock discipline.  Every step of the callback or of work() that reads
\* or writes _buf_head or _buf_used is taken holding _buf_mutex: head and
\* used change only in a step of the holder of the lock (the callback
\* between its lock and unlock, work() in its locked block of lines 245-250),
\* and work() holds the lock in the steps in which it takes the buffer at
\* the head (lines 231 and 252).
C12_LockDiscipline ==
  [][ /\ (buf_head' # buf_head \/ buf_used' # buf_used)
         => \/ acqPc = "cb_copy" /\ mutex = "acq"
            \/ pc = "release" /\ mutex = "free" /\ pc' = "l252"
      /\ (acqPc = "cb_lock" /\ acqPc' # acqPc) => mutex' = "acq"
      /\ (pc = "test" /\ pc' # pc) => mutex = "work"
      /\ (pc \in {"check", "l252"} /\ pc' \in ConvPcs) => mutex = "work"
    ]_vars

\* callbacks still to come that will fill a buffer
CallbacksLeft ==
  (MaxCallbacks - nCallbacks) - (BUF_SKIP - skipped)
  + (IF acqPc \in {"cb_lock", "cb_copy"} THEN 1 ELSE 0)

\* work() has returned noutput_items
PullReturned == pc = "idle" /\ ret = "items"

\* C13: pull progress while streaming.  For every number of buffers the
\* constructor accepts (any value from 1 on; 0 stands for 15): if _running
\* stays true and the source keeps delivering callbacks, a call of work()
\* that is in its wait, with enough callbacks still to come to fill three
\* buffers, eventually gets past the wait and returns noutput_items.
\* (With fewer than three buffers used never exceeds their number, C1, so
\* where the wait goes on after the last callback counted here it goes on
\* after any number of further ones.)
C13_PullProgress ==
  ([]running)
  => [](( Waiting /\ buf_used + CallbacksLeft >= 3) => <>PullReturned)

\* C14: malformed callback length.  A callback whose length differs from the
\* buffer length is dropped: no step it takes changes head, used or what any
\* slot holds (nothing is copied, nothing published); the callbacks after it
\* are ingested as usual.
C14_MalformedLengthDropped ==
  [][ (InCallback /\ cbLen # buf_len /\ acqPc' # acqPc)
      => UNCHANGED <<buf, buf_head, buf_used>> ]_vars

\* C15: warm-up discard.  Exactly the first BUF_SKIP (1) callbacks are
\* discarded: each returns at once, leaves head, used and every slot as they
\* are and does not notify.  Every later callback fills exactly one slot, the
\* one at (head + used) mod number of buffers, publishes it, and notifies
\* the condition variable once, after head/used were updated and the lock
\* released.
C15_WarmUpDiscard ==
  /\ [](acqPc = "reading"
        => lastPub = (IF nCallbacks > BUF_SKIP THEN nCallbacks ELSE 0))
  /\ [](acqPc = "cb_notify" => lastPub = cbBlk /\ cbBlk = nCallbacks /\ mutex # "acq")
  /\ [][ /\ (nCallbacks' # nCallbacks /\ nCallbacks < BUF_SKIP)
            => /\ acqPc' = "reading"
               /\ UNCHANGED <<buf, buf_head, buf_used, pc, lastPub>>
         /\ (nCallbacks' # nCallbacks /\ nCallbacks >= BUF_SKIP)
            => /\ acqPc' = "cb_lock"
               /\ UNCHANGED <<buf, buf_head, buf_used, pc, lastPub, skipped>>
         /\ (acqPc = "cb_copy" /\ acqPc' # acqPc)
            => /\ acqPc' = "cb_notify"
               /\ cbTail = (buf_head + buf_used) % buf_num
               /\ buf'[cbTail].blk = cbBlk
               /\ \A s \in Slots : s # cbTail => buf'[s] = buf[s]
               /\ lastPub' = cbBlk
               /\ pc' = pc
         /\ (acqPc = "cb_notify" /\ acqPc' # acqPc)
            => /\ acqPc' = "reading"
               /\ pc = "sleep" => pc' = "woken"
               /\ UNCHANGED <<buf, buf_head, buf_used>>
       ]_vars

\* the first callback was discarded, the second and the third each filled a
\* slot, and the notification of the third woke work()
C15_Witness ==
  /\ skipped = BUF_SKIP /\ nCallbacks = 3 /\ lastPub = 3 /\ buf_used = 2
  /\ buf[0].blk = 2 /\ buf[1].blk = 3
  /\ acqPc = "reading" /\ pc = "woken"

\* the number of pairs of a buffer, from its length in bytes
PairsPerBuf == buf_len \div BYTES_PER_SAMPLE

\* C16: cursor invariant.  As long as no call of work() asks for more pairs
\* than one buffer holds, _buf_offset counted in pairs plus _samp_avail is
\* the number of pairs of a buffer (_buf_len / BYTES_PER_SAMPLE), both lie
\* between 0 and that number, and _buf_offset decreases only in the step of
\* work() that follows its release of the buffer at the head.
C16_CursorInvariant ==
  /\ [](/\ buf_offset % 2 = 0
        /\ buf_offset \div 2 + samp_avail = PairsPerBuf
        /\ samp_avail \in 0 .. PairsPerBuf
        /\ (buf_offset \div 2) \in 0 .. PairsPerBuf)
  /\ [][ /\ buf_offset' < buf_offset => pc = "cross2"
         /\ (buf_offset' # buf_offset \/ samp_avail' # samp_avail)
            => pc \in {"fast", "cross2"} ]_vars

\* a call that crossed into the next buffer after a call that stayed inside
\* the first one: 30000 pairs, then 65536
C16_Witness ==
  /\ pc = "idle" /\ nPulls = 2 /\ path = "cross" /\ noutput_items = 65536
  /\ buf_offset = 60000 /\ samp_avail = 35536
  /\ buf_head = 1

\* C17: shutdown ordering.  The destructor clears _running and requests the
\* cancellation, then joins the acquisition thread, and only after the join
\* has returned closes the device and then frees the buffers.  Hence no
\* callback and no other step of the acquisition thread is taken once the
\* device is closed or the buffers are freed.
C17_ShutdownOrdering ==
  /\ []((~dev \/ ~bufAlloc) => (acqPc = "done" /\ dtorPc \in {"free", "dead"}))
  /\ [](dtorPc # "alive" => (cancelReq /\ ~running))
  /\ [](~bufAlloc => ~dev)
  /\ [][ /\ (acqPc' # acqPc \/ nCallbacks' # nCallbacks) => (dev /\ bufAlloc)
         /\ dtorPc' # dtorPc
            => <<dtorPc, dtorPc'>> \in {<<"alive", "join">>, <<"join", "close">>,
                                        <<"close", "free">>, <<"free", "dead">>}
         /\ (dtorPc = "join" /\ dtorPc' # dtorPc) => acqPc = "done"
       ]_vars

\* the block was destroyed after buffers had been filled: the thread has
\* ended, the device is closed and the buffers are freed
C17_Witness ==
  /\ dtorPc = "dead" /\ ~dev /\ ~bufAlloc /\ cancelReq
  /\ acqPc = "done" /\ buf_used >= 3 /\ nPulls > 0

\* The reference procedure.  The candidates of stage i: min, min + step, ...
\* up to max.
Candidates(i) ==
  {g \in (IfGains[i].start * GainScale) .. (IfGains[i].stop * GainScale) :
     (g - IfGains[i].start * GainScale) % (IfGains[i].step * GainScale) = 0}

\* | target - sum over all stages |, with stage i at g
RefErr(target, gains, i, g) ==
  LET d == target - SumSeq([j \in 1 .. NumStages |-> IF j = i THEN g ELSE gains[j]])
  IN  IF d < 0 THEN 0 - d ELSE d

\* the candidate of stage i with the least error (the lowest of them, if
\* several have it)
RefPick(target, gains, i) ==
  CHOOSE g \in Candidates(i) :
    \A h \in Candidates(i) :
      \/ RefErr(target, gains, i, g) < RefErr(target, gains, i, h)
      \/ RefErr(target, gains, i, g) = RefErr(target, gains, i, h) /\ g <= h

RECURSIVE RefPass(_, _, _)
RefPass(target, gains, i) ==
  IF i = 0 THEN gains
  ELSE RefPass(target, [gains EXCEPT ![i] = RefPick(target, gains, i)], i - 1)

\* every stage at its minimum, then the stages from the last to the first
Reference(target) ==
  RefPass(target, [i \in 1 .. NumStages |-> IfGains[i].start * GainScale], NumStages)

\* C18: backward coordinate pass.  For every whole-dB target in the range
\* tried and the six stages, the stage gains set_if_gain gives to the device
\* are those of the reference procedure (all stages at their minimum, then,
\* from the last stage to the first, the candidate of the stage that
\* minimizes the absolute error of the sum), and each of them is a candidate
\* of its own stage.
C18_BackwardCoordinatePass ==
  (gainOp = "set" /\ gainArg % GainScale = 0)
  => /\ tuner_if_gain = [i \in 1 .. NumStages |-> (Reference(gainArg)[i] * 10) \div GainScale]
     /\ \A i \in 1 .. NumStages :
          \E g \in Candidates(i) : tuner_if_gain[i] * GainScale = g * 10

\* a whole-dB target inside the range of the stages was set, in the build
\* whose abs() is the integer one
C18_Witness ==
  /\ gainOp = "set" /\ gainArg = 29 * GainScale /\ absInt
  /\ tuner_if_gain # <<-30, 0, 0, 0, 30, 30>>
  /\ tuner_if_gain # <<60, 90, 90, 20, 150, 150>>
  /\ SumSeq(tuner_if_gain) = 290

\* C19: work() converts only out of filled buffers and used never
\* underflows.  Under any interleaving with the callbacks: work() gets to
\* its conversion only with used >= 3 (seen under the lock and never lowered
\* by anyone else), used >= 2 holds from its release of the buffer at the
\* head on, so used >= 2 whenever it reads a buffer, and every buffer it
\* reads has been filled by a callback.
C19_ConvertsFilledSlots ==
  /\ buf_used >= 0
  /\ (pc = "check" /\ running) => buf_used >= 3
  /\ pc \in {"fast", "cross1", "release"} => buf_used >= 3
  /\ pc \in {"l252", "cross2"} => buf_used >= 2
  /\ pc \in ConvPcs => buf[rdSlot].blk # 0
  /\ \A i \in 1 .. Len(out) : out[i].blk # 0

\* work() reads the buffer it has moved on to, right after a release that
\* left two filled buffers, a callback being on its way
C19_Witness ==
  /\ pc = "cross2" /\ buf_used = 2 /\ rdSlot = buf_head /\ buf_head = 1
  /\ Len(out) = 1 /\ out[1].blk = 2
  /\ acqPc = "cb_lock"

\* work() has not yet passed the test of line 228
BeforeEosTest == pc \in {"lock", "test", "wait", "sleep", "woken", "check"}

\* C20: end of stream is absorbing and discards what is buffered.  _running
\* changes only from true to false.  A call of work() made once it is false
\* never waits, converts nothing and returns WORK_DONE, and leaves head,
\* used and the cursor as they were, also when three or more filled buffers
\* remain; and a call that has not yet passed the test of line 228 when
\* _running becomes false can only return WORK_DONE, with nothing delivered.
C20_EndOfStreamAbsorbing ==
  /\ []((nPulls > 0 /\ ~pre.running)
        => /\ ~running
           /\ pc \in {"lock", "test", "check", "idle"}
           /\ out = <<>>
           /\ pc = "idle" => ret = "done"
           /\ buf_head = pre.head /\ buf_used = pre.used
           /\ buf_offset = pre.offset /\ samp_avail = pre.avail)
  /\ [][ /\ running' # running => (running /\ ~running')
         /\ (~running /\ BeforeEosTest /\ pc' = "idle")
            => /\ ret' = "done" /\ out' = <<>>
               /\ UNCHANGED <<buf_head, buf_used, buf_offset, samp_avail>>
         /\ (~running /\ BeforeEosTest) => pc' \notin ConvPcs
       ]_vars

\* osmosdr_read_async returned with three buffers filled and the cursor
\* inside the first; the call of work() made after that returned WORK_DONE
C20_Witness ==
  /\ pc = "idle" /\ nPulls = 2 /\ ~pre.running /\ pre.used >= 3
  /\ ret = "done" /\ path = "eos" /\ out = <<>>
  /\ buf_used >= 3 /\ buf_offset > 0

====
